---- MODULE Spec2Model ----
(***************************************************************************)
(* Relay layout inference (layout_infer.cc): the LayoutInferencer class,   *)
(* its fixed-point driver Infer, the memoised visitor GetLayout /          *)
(* VisitExpr_, the rule protocol of VisitExpr_(CallNode) and the export    *)
(* CollectLayoutInfo.  The recursive visitor is modelled with an explicit  *)
(* stack of frames; every action is one step of the C++ code.              *)
(***************************************************************************)
EXTENDS Integers, Sequences, FiniteSets, TLC

\* ------------------------------------------------------------------ bounds
\* a timestamp_ that started at 0 is kept exactly up to MaxStamp; from there
\* on a round ages the stamps instead (see Increment)
MaxStamp == 2
\* number of Infer(root) calls made on one inferencer
MaxCalls == 2
\* traversals of root counted per Infer call (the count stops there, the run does not)
MaxRounds == 3

\* ------------------------------------------------------------ layout values
Undef == "Undef"

\* TensorLayoutNode::make(layout): one Layout in the member `layout`
TensorLayout(l) == [tag |-> "Tensor", layout |-> l]

\* TupleLayoutNode::make(fields): an Array<Layout> in the member `fields`
TupleLayout(fs) == [tag |-> "Tuple", fields |-> fs]

\* Array<Layout>(num_outputs, default_layout)
Repeat(n, l) == [j \in 1..n |-> l]

\* RelayLayout::Equals: structural equality of the two layouts
Equals(a, b) == a = b

\* number of layouts a RelayLayout carries
LayoutArity(l) == IF l.tag = "Tensor" THEN 1 ELSE Len(l.fields)

\* the layouts a RelayLayout carries, in order
LayoutFields(l) == IF l.tag = "Tensor" THEN <<l.layout>> ELSE l.fields

\* no RelayLayout (nothing returned yet)
NoLayout == [tag |-> "None"]

EmptyMap == [n \in {} |-> NoLayout]

\* Map::Set
MapSet(map, e, l) == [n \in (DOMAIN map) \cup {e} |-> IF n = e THEN l ELSE map[n]]

\* ------------------------------------------------------------------- graph
\* The expression nodes the runs are made of.  Node "k" is of an
\* unsupported kind chosen per run.
Vars == {"x", "w", "t0", "t1", "t2"}

Calls == {"conv", "plain", "split", "apply", "bad", "closure", "share"}

Functions == {"f", "fk"}

Nodes == Vars \cup Calls \cup Functions \cup {"k"}

Unsupported == {"GlobalVar", "Constant", "Tuple", "TupleGetItem", "Op", "Let", "If",
                "Match", "RefCreate", "RefRead", "RefWrite", "Constructor"}

\* call->args
Args(n) ==
  CASE n = "conv"    -> <<"x", "w">>
    [] n = "plain"   -> <<"x", "t1">>
    [] n = "split"   -> <<"x">>
    [] n = "apply"   -> <<"f">>
    [] n = "bad"     -> <<"x", "k">>
    [] n = "closure" -> <<"x">>
    [] n = "share"   -> <<"x", "f", "f">>
    [] OTHER         -> <<>>

\* call->op: an operator name, or a node when the callee is not an Op
Callee(n) ==
  CASE n = "conv"    -> "conv2d"
    [] n = "plain"   -> "copy"
    [] n = "split"   -> "split_op"
    [] n = "apply"   -> "invoke"
    [] n = "bad"     -> "conv2d"
    [] n = "closure" -> "f"
    [] n = "share"   -> "observe"
    [] OTHER         -> "none"

\* f->body
Body(n) == CASE n = "f" -> "split" [] n = "fk" -> "k" [] OTHER -> "none"

\* the operators with a registered FInferLayout attribute
Registered == {"conv2d", "split_op", "invoke", "observe"}

\* expr->checked_type(): whether it is a TupleTypeNode, and its field count
IsTupleType(n) == n \in {"t0", "t1", "t2", "split"}

NumFields(n) ==
  CASE n = "t0" -> 0 [] n = "t1" -> 1 [] n = "t2" -> 2 [] n = "split" -> 2 [] OTHER -> 0

\* arity of the node's static type
TypeArity(n) == IF IsTupleType(n) THEN NumFields(n) ELSE 1

RECURSIVE Reach(_)
Reach(n) ==
  {n} \cup (IF n \in Calls
              THEN UNION {Reach(Args(n)[j]) : j \in 1..Len(Args(n))}
              ELSE IF n \in Functions THEN Reach(Body(n)) ELSE {})

Roots == {"x", "t0", "t1", "t2", "k", "conv", "plain", "split", "apply", "bad", "f", "fk", "closure",
          "share"}

\* ------------------------------------------------------------------- state
VARIABLES
  root,              \* the expression handed to Infer
  badKind,           \* the node kind of "k"
  ctor,              \* which constructor built the inferencer
  rules,             \* how the registered rules behave in this run
  in_layouts,        \* the caller's pre-seeded map
  layout_map_,       \* Map<Expr, RelayLayout>
  layout_timestamp_, \* unordered_map<Expr, int>, absent = 0
  modified_,
  timestamp_,
  pc,                \* position in Infer / CollectLayoutInfo
  stack,             \* frames of the recursive visitor, top last
  ret,               \* value of the last return of VisitExpr / GetLayout
  reporter,          \* the LayoutReporter of the rule invocation in progress
  invoked,           \* calls whose rule has been invoked at least once
  memo,              \* rules = "contract": each rule's last input and answer
  proposed,          \* rules = "contract": the last layout proposed for each node
  calls,             \* Infer calls started so far
  traversals,        \* traversals of root begun in the current Infer call, up to MaxRounds
  changed,           \* whether the current traversal of root has changed layout_map_
  roundVisited,      \* nodes VisitExpr has been called on in the current traversal of root
  roundInvoked,      \* calls whose rule has been invoked in the current traversal of root
  exported           \* result of CollectLayoutInfo

vars == <<root, badKind, ctor, rules, in_layouts, layout_map_, layout_timestamp_,
          modified_, timestamp_, pc, stack, ret, reporter, invoked, memo,
          proposed, calls, traversals, changed, roundVisited, roundInvoked, exported>>

Kind(n) ==
  IF n \in Vars THEN "Var"
  ELSE IF n \in Calls THEN "Call"
  ELSE IF n \in Functions THEN "Function"
  ELSE badKind

\* ------------------------------------------------------- class operations
\* GetCachedLayout without the early return of lines 105-107: the default is
\* built and stored whether or not the node has an entry
GetCachedLayoutNoCache(map, mod, e) ==
  LET num_outputs == IF IsTupleType(e) THEN NumFields(e) ELSE 1
      olayout == IF num_outputs = 1
                   THEN TensorLayout(Undef)
                   ELSE TupleLayout(Repeat(num_outputs, Undef))
  IN [map |-> MapSet(map, e, olayout), modified |-> TRUE, value |-> olayout]

\* GetCachedLayout without line 116: the default is stored but modified_ is
\* left as it is
GetCachedLayoutNoFlag(map, mod, e) ==
  IF e \in DOMAIN map
    THEN [map |-> map, modified |-> mod, value |-> map[e]]
    ELSE LET num_outputs == IF IsTupleType(e) THEN NumFields(e) ELSE 1
             olayout == IF num_outputs = 1
                          THEN TensorLayout(Undef)
                          ELSE TupleLayout(Repeat(num_outputs, Undef))
         IN [map |-> MapSet(map, e, olayout), modified |-> mod, value |-> olayout]

\* GetCachedLayout (lines 104-119): result [map, modified, value]
GetCachedLayout(map, mod, e) ==
  IF e \in DOMAIN map
    THEN [map |-> map, modified |-> mod, value |-> map[e]]
    ELSE LET num_outputs == IF IsTupleType(e) THEN NumFields(e) ELSE 1
             olayout == IF num_outputs = 1
                          THEN TensorLayout(Undef)
                          ELSE TupleLayout(Repeat(num_outputs, Undef))
         IN [map |-> MapSet(map, e, olayout), modified |-> TRUE, value |-> olayout]

\* UpdateLayoutCache that only inserts: an entry already present is kept
UpdateLayoutCacheInsertOnly(map, mod, e, l) ==
  IF e \notin DOMAIN map
    THEN [map |-> MapSet(map, e, l), modified |-> TRUE]
    ELSE [map |-> map, modified |-> mod]

\* UpdateLayoutCache(expr, layout) (lines 121-126): result [map, modified]
UpdateLayoutCache(map, mod, e, l) ==
  IF e \notin DOMAIN map \/ ~Equals(map[e], l)
    THEN [map |-> MapSet(map, e, l), modified |-> TRUE]
    ELSE [map |-> map, modified |-> mod]

\* UpdateLayoutCache(reporter) (lines 128-132): every entry of results
RECURSIVE UpdateLayoutCacheAll(_, _, _)
UpdateLayoutCacheAll(map, mod, results) ==
  IF DOMAIN results = {}
    THEN [map |-> map, modified |-> mod]
    ELSE LET e == CHOOSE n \in DOMAIN results : TRUE
             one == UpdateLayoutCache(map, mod, e, results[e])
         IN UpdateLayoutCacheAll(one.map, one.modified,
                                 [n \in (DOMAIN results) \ {e} |-> results[n]])

\* the test of GetLayout (line 97)
NeedsVisit(map, stamps, ts, e) == e \notin DOMAIN map \/ stamps[e] < ts

\* CollectLayoutInfo with the else branch of lines 77-81 missing: entries
\* that are not a TensorLayoutNode are left out
CollectLayoutInfoTensorsOnly(map) ==
  [n \in {e \in DOMAIN map : map[e].tag = "Tensor"} |-> <<map[n].layout>>]

\* CollectLayoutInfo (lines 71-84)
CollectLayoutInfo(map) ==
  [n \in DOMAIN map |-> IF map[n].tag = "Tensor" THEN <<map[n].layout>> ELSE map[n].fields]


\* ------------------------------------------------------------ environment
\* what the caller may pre-seed: nothing, or one entry for a node of the graph
SeedLayouts == {TensorLayout("NHWC")}

Seeds(r) == {EmptyMap} \cup {MapSet(EmptyMap, n, l) : n \in Reach(r), l \in SeedLayouts}

\* The code observes timestamp_ only through line 97, the order of a stamp
\* and timestamp_, and changes it only by timestamp_++ (line 65); the stamps
\* are 0 (operator[] on an absent key) or a value timestamp_ had.  The int
\* is therefore kept as one of these values:
\*   0 .. MaxStamp   the value itself; at MaxStamp a round ages the stamps
\*                   instead of counting further
\*   StampNegative   any negative value: the never-stamped entries stay
\*                   fresh until the increments reach 1, which takes a
\*                   number of rounds that depends on the value
\*   StampNearMax    any positive value the constructor left: it behaves
\*                   as a value >= 1 until the increment of INT_MAX
\*   StampWrapped    INT_MIN and the values that follow it, after the
\*                   signed overflow of timestamp_++ wrapped around:
\*                   every stamp written before is above timestamp_
StampNegative == 0 - 1

StampNearMax == MaxStamp + 1

StampWrapped == 0 - 3

\* values an uninitialised int member may hold (line 58 initialises neither
\* modified_ nor timestamp_)
GarbageStamps == {StampNegative, 0, StampNearMax}

\* the stamps after a round whose increment is not counted: a node stamped
\* in the round that ends is stale in the next one
Aged(ts, stamps) == [n \in DOMAIN stamps |-> IF stamps[n] = ts THEN ts - 1 ELSE stamps[n]]

\* timestamp_++ (line 65): the values of timestamp_ and of the stamps after
\* the increment
Increment(ts, stamps) ==
  IF ts = StampNegative
    THEN {[timestamp |-> StampNegative, stamps |-> Aged(ts, stamps)],
          [timestamp |-> 0, stamps |-> stamps]}
  ELSE IF ts = StampNearMax
    THEN {[timestamp |-> StampNearMax, stamps |-> Aged(ts, stamps)],
          [timestamp |-> StampWrapped, stamps |-> [n \in DOMAIN stamps |-> 0]]}
  ELSE IF ts = StampWrapped \/ ts = MaxStamp
    THEN {[timestamp |-> ts, stamps |-> Aged(ts, stamps)]}
  ELSE {[timestamp |-> ts + 1, stamps |-> stamps]}

\* layouts a rule may put in the reporter
Proposable == {TensorLayout("NCHW"), TupleLayout(<<"NCHW", "NCHW">>)}

\* layouts a rule that keeps the rule contract may put in the reporter for n
ContractProposable(n) ==
  {l \in Proposable \cup {TensorLayout(Undef)} :
     LayoutArity(l) = TypeArity(n) /\ (l.tag = "Tuple") = IsTupleType(n)}

\* nodes = [a_1 .. a_n, c] (lines 178, 183)
CallNodes(c) == {Args(c)[j] : j \in 1..Len(Args(c))} \cup {c}

\* the nodes the rule registered for the call's operator assigns: the rule
\* of "observe" reads its input and assigns nothing, the others may assign
\* any of the call's nodes
Assignable(c) == IF Callee(c) = "observe" THEN {} ELSE CallNodes(c)

Reports(c) == UNION {[D -> Proposable] : D \in SUBSET Assignable(c)}

ContractReports(c) ==
  {q \in UNION {[D -> Proposable \cup {TensorLayout(Undef)}] :
                  D \in SUBSET Assignable(c)} :
     \A n \in DOMAIN q : q[n] \in ContractProposable(n)}

NoReport == [call |-> "none", ok |-> FALSE, results |-> EmptyMap]

ScenarioBResults ==
  [n \in {"x", "w", "conv"} |->
     IF n = "w" THEN TensorLayout("OIHW") ELSE TensorLayout("NCHW")]

\* a layout at least as specific as b in every field, and not b itself
MoreSpecific(a, b) ==
  /\ a # b
  /\ a.tag = b.tag
  /\ LayoutArity(a) = LayoutArity(b)
  /\ \A j \in 1..LayoutArity(b) :
       LayoutFields(b)[j] = Undef \/ LayoutFields(b)[j] = LayoutFields(a)[j]

\* the rule set stays monotone when these results follow the earlier proposals
Monotone(results) ==
  \A n \in (DOMAIN results) \cap (DOMAIN proposed) :
     results[n] = proposed[n] \/ MoreSpecific(results[n], proposed[n])

\* what a side-effect-free rule answered when it was last invoked, if the
\* input was this one
Seen(c, layouts) == {m \in memo : m.call = c /\ m.layouts = layouts}

\* finfer_layout[op](layouts, types, n, attrs, reporter) (line 190): the
\* success flag and the reporter's results, for the rule behaviour of the run
RuleOutcomes(c, layouts) ==
  IF rules = "scenarioB"
    THEN IF c \notin invoked
           THEN {[call |-> c, ok |-> TRUE, results |-> ScenarioBResults]}
           ELSE {[call |-> c, ok |-> FALSE, results |-> EmptyMap]}
    ELSE IF rules = "contract"
    THEN IF Seen(c, layouts) # {}
           THEN {[call |-> c, ok |-> m.ok, results |-> m.results] : m \in Seen(c, layouts)}
           ELSE {[call |-> c, ok |-> FALSE, results |-> EmptyMap]}
                \cup {[call |-> c, ok |-> TRUE, results |-> r] :
                        r \in {q \in ContractReports(c) : Monotone(q)}}
    ELSE {[call |-> c, ok |-> b, results |-> r] : b \in BOOLEAN, r \in Reports(c)}

NoExport == [n \in {"none"} |-> <<>>]

\* -------------------------------------------------------------------- frames
VisitFrame(n) == [fn |-> "Visit", node |-> n, at |-> "enter", i |-> 1, layouts |-> <<>>]

GetLayoutFrame(n) == [fn |-> "GetLayout", node |-> n, at |-> "wb", i |-> 1, layouts |-> <<>>]

Top == stack[Len(stack)]

Pop(s) == SubSeq(s, 1, Len(s) - 1)

ReplaceTop(s, fr) == [s EXCEPT ![Len(s)] = fr]

\* the frame of the call receives the layout GetLayout returned (line 176)
PushLayout(fr, l) == [fr EXCEPT !.layouts = Append(@, l), !.i = @ + 1]

\* where Infer stands once VisitExpr(expr) has returned to it
AfterReturn(s) == IF s = <<>> THEN "check" ELSE "visit"

Running == pc = "visit" /\ stack # <<>>

InArgs == Running /\ Top.fn = "Visit" /\ Top.at = "enter" /\ Kind(Top.node) = "Call"
          /\ Top.i <= Len(Args(Top.node))

\* ---------------------------------------------------------------------- Init
Init ==
  /\ root \in Roots
  /\ badKind \in (IF root \in {"k", "fk"} THEN Unsupported ELSE {"Constant"})
  /\ ctor \in {"default", "preseeded"}
  /\ rules \in (IF root = "conv" THEN {"free", "contract", "scenarioB"} ELSE {"free", "contract"})
  /\ in_layouts \in (IF ctor = "default" THEN {EmptyMap} ELSE Seeds(root))
  /\ layout_map_ = in_layouts
  /\ layout_timestamp_ = [n \in Nodes |-> 0]
  /\ modified_ \in (IF ctor = "default" THEN {FALSE} ELSE BOOLEAN)
  /\ timestamp_ \in (IF ctor = "default" THEN {0} ELSE GarbageStamps)
  /\ pc = "infer"
  /\ stack = <<>>
  /\ ret = NoLayout
  /\ reporter = NoReport
  /\ invoked = {}
  /\ memo = {}
  /\ proposed = EmptyMap
  /\ calls = 1
  /\ traversals = 0
  /\ changed = FALSE
  /\ roundVisited = {}
  /\ roundInvoked = {}
  /\ exported = NoExport

\* ------------------------------------------------------------------- actions
\* bookkeeping of `changed`: any insertion or replacement in layout_map_
NoteChange == changed' = (changed \/ layout_map_' # layout_map_)

\* Infer, line 62: this->VisitExpr(expr)
InferVisit ==
  /\ pc = "infer"
  /\ pc' = "visit"
  /\ stack' = <<VisitFrame(root)>>
  /\ changed' = FALSE
  /\ traversals' = IF traversals < MaxRounds THEN traversals + 1 ELSE traversals
  /\ roundVisited' = {root}
  /\ roundInvoked' = {}
  /\ UNCHANGED <<root, badKind, ctor, rules, in_layouts, layout_map_, layout_timestamp_,
                 modified_, timestamp_, ret, reporter, invoked, memo, proposed, calls, exported>>

\* VisitExpr_(const VarNode*), lines 135-137
VisitVar ==
  /\ Running /\ Top.fn = "Visit" /\ Kind(Top.node) = "Var"
  /\ LET r == GetCachedLayout(layout_map_, modified_, Top.node)
     IN /\ layout_map_' = r.map
        /\ modified_' = r.modified
        /\ ret' = r.value
  /\ stack' = Pop(stack)
  /\ pc' = AfterReturn(stack')
  /\ NoteChange
  /\ UNCHANGED <<root, badKind, ctor, rules, in_layouts, roundVisited, roundInvoked, layout_timestamp_, timestamp_,
                 reporter, invoked, memo, proposed, calls, traversals, exported>>

\* VisitExpr_ of the twelve other kinds, lines 139-166 and 204-222: LOG(FATAL)
VisitUnsupported ==
  /\ Running /\ Top.fn = "Visit" /\ Kind(Top.node) \in Unsupported
  /\ pc' = "fatal"
  /\ UNCHANGED <<root, badKind, ctor, rules, in_layouts, roundVisited, roundInvoked, layout_map_, layout_timestamp_,
                 modified_, timestamp_, stack, ret, reporter, invoked, memo, proposed, calls, traversals,
                 changed, exported>>

\* VisitExpr_(const FunctionNode*), lines 199-202: the body's visit is the result
VisitFunction ==
  /\ Running /\ Top.fn = "Visit" /\ Kind(Top.node) = "Function"
  /\ stack' = ReplaceTop(stack, VisitFrame(Body(Top.node)))
  /\ roundVisited' = roundVisited \cup {Body(Top.node)}
  /\ UNCHANGED <<root, badKind, ctor, rules, in_layouts, roundInvoked, layout_map_, layout_timestamp_,
                 modified_, timestamp_, pc, ret, reporter, invoked, memo, proposed, calls, traversals,
                 changed, exported>>

\* GetLayout(arg), lines 96-97 and 101: the entry is present and not stale
CallArgCached ==
  /\ InArgs
  /\ LET a == Args(Top.node)[Top.i]
     IN /\ ~NeedsVisit(layout_map_, layout_timestamp_, timestamp_, a)
        /\ ret' = layout_map_[a]
        /\ stack' = ReplaceTop(stack, PushLayout(Top, layout_map_[a]))
  /\ UNCHANGED <<root, badKind, ctor, rules, in_layouts, roundVisited, roundInvoked, layout_map_, layout_timestamp_,
                 modified_, timestamp_, pc, reporter, invoked, memo, proposed, calls, traversals,
                 changed, exported>>

\* GetLayout(arg), lines 96-98: absent or stale, so VisitExpr(arg)
CallArgVisit ==
  /\ InArgs
  /\ LET a == Args(Top.node)[Top.i]
     IN /\ NeedsVisit(layout_map_, layout_timestamp_, timestamp_, a)
        /\ stack' = stack \o <<GetLayoutFrame(a), VisitFrame(a)>>
        /\ roundVisited' = roundVisited \cup {a}
  /\ UNCHANGED <<root, badKind, ctor, rules, in_layouts, roundInvoked, layout_map_, layout_timestamp_,
                 modified_, timestamp_, pc, ret, reporter, invoked, memo, proposed, calls, traversals,
                 changed, exported>>

\* GetLayout, lines 99-101: store the visit's result, return the entry
GetLayoutWriteBack ==
  /\ Running /\ Top.fn = "GetLayout"
  /\ layout_map_' = MapSet(layout_map_, Top.node, ret)
  /\ ret' = layout_map_'[Top.node]
  /\ LET below == Pop(stack)
     IN stack' = ReplaceTop(below, PushLayout(below[Len(below)], ret'))
  /\ NoteChange
  /\ UNCHANGED <<root, badKind, ctor, rules, in_layouts, roundVisited, roundInvoked, layout_timestamp_, modified_,
                 timestamp_, pc, reporter, invoked, memo, proposed, calls, traversals, exported>>

\* VisitExpr_(const CallNode*), lines 181-183: the call's own cached-or-default layout
CallOwn ==
  /\ Running /\ Top.fn = "Visit" /\ Top.at = "enter" /\ Kind(Top.node) = "Call"
  /\ Top.i = Len(Args(Top.node)) + 1
  /\ LET r == GetCachedLayout(layout_map_, modified_, Top.node)
     IN /\ layout_map_' = r.map
        /\ modified_' = r.modified
        /\ stack' = ReplaceTop(stack, [PushLayout(Top, r.value) EXCEPT !.at = "lookup"])
  /\ NoteChange
  /\ UNCHANGED <<root, badKind, ctor, rules, in_layouts, roundVisited, roundInvoked, layout_timestamp_, timestamp_,
                 pc, ret, reporter, invoked, memo, proposed, calls, traversals, exported>>

\* line 187: Downcast<Op>(call->op) fails its CHECK when the callee is not an Op
CallDowncastFails ==
  /\ Running /\ Top.fn = "Visit" /\ Top.at = "lookup"
  /\ Callee(Top.node) \in Nodes
  /\ pc' = "fatal"
  /\ UNCHANGED <<root, badKind, ctor, rules, in_layouts, roundVisited, roundInvoked, layout_map_, layout_timestamp_,
                 modified_, timestamp_, stack, ret, reporter, invoked, memo, proposed, calls, traversals,
                 changed, exported>>

\* line 190 without the test of line 188: finfer_layout[op] on an operator
\* that has no FInferLayout attribute is a fatal error
CallUnregisteredFatal ==
  /\ Running /\ Top.fn = "Visit" /\ Top.at = "lookup"
  /\ Callee(Top.node) \notin Nodes
  /\ Callee(Top.node) \notin Registered
  /\ pc' = "fatal"
  /\ UNCHANGED <<root, badKind, ctor, rules, in_layouts, roundVisited, roundInvoked, layout_map_, layout_timestamp_,
                 modified_, timestamp_, stack, ret, reporter, invoked, memo, proposed, calls, traversals,
                 changed, exported>>

\* lines 188, 195-196: no FInferLayout registered for the operator
CallUnregistered ==
  /\ Running /\ Top.fn = "Visit" /\ Top.at = "lookup"
  /\ Callee(Top.node) \notin Nodes
  /\ Callee(Top.node) \notin Registered
  /\ layout_timestamp_' = [layout_timestamp_ EXCEPT ![Top.node] = timestamp_]
  /\ LET r == GetCachedLayout(layout_map_, modified_, Top.node)
     IN /\ layout_map_' = r.map
        /\ modified_' = r.modified
        /\ ret' = r.value
  /\ stack' = Pop(stack)
  /\ pc' = AfterReturn(stack')
  /\ NoteChange
  /\ UNCHANGED <<root, badKind, ctor, rules, in_layouts, roundVisited, roundInvoked, timestamp_, reporter, invoked, memo, proposed,
                 calls, traversals, exported>>

\* lines 188-190: the registered rule is invoked with layouts and a fresh reporter
CallInvokeRule ==
  /\ Running /\ Top.fn = "Visit" /\ Top.at = "lookup"
  /\ Callee(Top.node) \in Registered
  /\ reporter' \in RuleOutcomes(Top.node, Top.layouts)
  /\ rules = "contract" => (reporter'.ok => Monotone(reporter'.results))
  /\ invoked' = invoked \cup {Top.node}
  /\ IF rules = "contract"
       THEN /\ memo' = {m \in memo : m.call # Top.node} \cup {[call |-> Top.node, layouts |-> Top.layouts,
                                   ok |-> reporter'.ok, results |-> reporter'.results]}
            /\ proposed' = IF reporter'.ok
                             THEN [n \in (DOMAIN proposed) \cup (DOMAIN reporter'.results) |->
                                     IF n \in DOMAIN reporter'.results
                                       THEN reporter'.results[n] ELSE proposed[n]]
                             ELSE proposed
       ELSE UNCHANGED <<memo, proposed>>
  /\ stack' = ReplaceTop(stack, [Top EXCEPT !.at = "merge"])
  /\ roundInvoked' = roundInvoked \cup {Top.node}
  /\ UNCHANGED <<root, badKind, ctor, rules, in_layouts, roundVisited, layout_map_, layout_timestamp_,
                 modified_, timestamp_, pc, ret, calls, traversals, changed, exported>>

\* lines 191-196 without the test of infer_success: the reporter is merged
\* whatever the rule returned
CallMergeAlways ==
  /\ Running /\ Top.fn = "Visit" /\ Top.at = "merge"
  /\ LET merged == UpdateLayoutCacheAll(layout_map_, modified_, reporter.results)
         r == GetCachedLayout(merged.map, merged.modified, Top.node)
     IN /\ layout_map_' = r.map
        /\ modified_' = r.modified
        /\ ret' = r.value
  /\ layout_timestamp_' = [layout_timestamp_ EXCEPT ![Top.node] = timestamp_]
  /\ reporter' = NoReport
  /\ stack' = Pop(stack)
  /\ pc' = AfterReturn(stack')
  /\ NoteChange
  /\ UNCHANGED <<root, badKind, ctor, rules, in_layouts, roundVisited, roundInvoked, timestamp_, invoked, memo, proposed, calls, traversals,
                 exported>>

\* lines 191-196 as in the earlier layout_infer.cc: the visit returns
\* layouts[layouts.size() - 1], the call's layout read before the merge
CallMergeReturnsCaptured ==
  /\ Running /\ Top.fn = "Visit" /\ Top.at = "merge"
  /\ LET merged == IF reporter.ok
                     THEN UpdateLayoutCacheAll(layout_map_, modified_, reporter.results)
                     ELSE [map |-> layout_map_, modified |-> modified_]
     IN /\ layout_map_' = merged.map
        /\ modified_' = merged.modified
        /\ ret' = Top.layouts[Len(Top.layouts)]
  /\ layout_timestamp_' = [layout_timestamp_ EXCEPT ![Top.node] = timestamp_]
  /\ reporter' = NoReport
  /\ stack' = Pop(stack)
  /\ pc' = AfterReturn(stack')
  /\ NoteChange
  /\ UNCHANGED <<root, badKind, ctor, rules, in_layouts, roundVisited, roundInvoked, timestamp_, invoked, memo,
                 proposed, calls, traversals, exported>>

\* lines 191-196: merge on success, stamp the call, return its entry
CallMerge ==
  /\ Running /\ Top.fn = "Visit" /\ Top.at = "merge"
  /\ LET merged == IF reporter.ok
                     THEN UpdateLayoutCacheAll(layout_map_, modified_, reporter.results)
                     ELSE [map |-> layout_map_, modified |-> modified_]
         r == GetCachedLayout(merged.map, merged.modified, Top.node)
     IN /\ layout_map_' = r.map
        /\ modified_' = r.modified
        /\ ret' = r.value
  /\ layout_timestamp_' = [layout_timestamp_ EXCEPT ![Top.node] = timestamp_]
  /\ reporter' = NoReport
  /\ stack' = Pop(stack)
  /\ pc' = AfterReturn(stack')
  /\ NoteChange
  /\ UNCHANGED <<root, badKind, ctor, rules, in_layouts, roundVisited, roundInvoked, timestamp_, invoked, memo, proposed, calls, traversals,
                 exported>>

\* Infer, lines 63-66: another round while modified_
InferAgainRound ==
  /\ pc = "check" /\ modified_
  /\ modified_' = FALSE
  /\ \E o \in Increment(timestamp_, layout_timestamp_) :
        /\ timestamp_' = o.timestamp
        /\ layout_timestamp_' = o.stamps
  /\ pc' = "infer"
  /\ UNCHANGED <<root, badKind, ctor, rules, in_layouts, roundVisited, roundInvoked, layout_map_, stack, ret,
                 reporter, invoked, memo, proposed, calls, traversals, changed, exported>>

\* Infer without the loop of lines 63-67 (the earlier layout_infer.cc): it
\* returns after the traversal whatever modified_ is
InferReturnNoLoop ==
  /\ pc = "check"
  /\ pc' = "done"
  /\ UNCHANGED <<root, badKind, ctor, rules, in_layouts, roundVisited, roundInvoked, layout_map_, layout_timestamp_,
                 modified_, timestamp_, stack, ret, reporter, invoked, memo, proposed, calls, traversals,
                 changed, exported>>

\* Infer, lines 63 and 68: modified_ is false, return
InferReturn ==
  /\ pc = "check" /\ ~modified_
  /\ pc' = "done"
  /\ UNCHANGED <<root, badKind, ctor, rules, in_layouts, roundVisited, roundInvoked, layout_map_, layout_timestamp_,
                 modified_, timestamp_, stack, ret, reporter, invoked, memo, proposed, calls, traversals,
                 changed, exported>>

\* a further Infer(root) on the same inferencer
InferCall ==
  /\ pc = "done" /\ calls < MaxCalls
  /\ calls' = calls + 1
  /\ traversals' = 0
  /\ pc' = "infer"
  /\ UNCHANGED <<root, badKind, ctor, rules, in_layouts, roundVisited, roundInvoked, layout_map_, layout_timestamp_,
                 modified_, timestamp_, stack, ret, reporter, invoked, memo, proposed,
                 changed, exported>>

\* CollectLayoutInfo, lines 233 and 71-84
Collect ==
  /\ pc = "done"
  /\ exported' = CollectLayoutInfo(layout_map_)
  /\ pc' = "collected"
  /\ UNCHANGED <<root, badKind, ctor, rules, in_layouts, roundVisited, roundInvoked, layout_map_, layout_timestamp_,
                 modified_, timestamp_, stack, ret, reporter, invoked, memo, proposed, calls, traversals,
                 changed>>

Next ==
  \/ InferVisit
  \/ VisitVar
  \/ VisitUnsupported
  \/ VisitFunction
  \/ CallArgCached
  \/ CallArgVisit
  \/ GetLayoutWriteBack
  \/ CallOwn
  \/ CallDowncastFails
  \/ CallUnregistered
  \/ CallInvokeRule
  \/ CallMerge
  \/ InferAgainRound
  \/ InferReturn
  \/ InferCall
  \/ Collect

Spec == Init /\ [][Next]_vars

\* ------------------------------------------------ rules that keep the contract
\* The runs in which every registered rule keeps the rule contract: its
\* answer depends on its input only (it repeats its last answer when it is
\* handed the same layouts again), its proposals are monotone, and every
\* proposed or pre-seeded layout has the arity and the variant of the node's
\* static type.
InitContract ==
  /\ Init
  /\ rules = "contract"
  /\ \A n \in DOMAIN in_layouts : LayoutArity(in_layouts[n]) = TypeArity(n)

SpecContract == InitContract /\ [][Next]_vars

\* every step of the C++ code that can run does run
FairContract == SpecContract /\ WF_vars(Next)

\* the graph holds Var, Call and Function nodes only, every callee an operator
Supported ==
  \A n \in Reach(root) :
     /\ Kind(n) \in {"Var", "Call", "Function"}
     /\ n \in Calls => Callee(n) \notin Nodes

\* ---------------------------------------------------------------- properties
\* C1. Arity invariant: in every reachable state of a run, every entry of
\* the layout map has the arity of its node's static type (1 for a
\* non-tuple type, the field count for a tuple type), whether it came from
\* default insertion, GetLayout's write-back, a merged proposal or a seed.
C1_ArityInvariant ==
  \A n \in DOMAIN layout_map_ : LayoutArity(layout_map_[n]) = TypeArity(n)

\* C2. Monotone convergence: on a graph of Var, Call and Function nodes with
\* a monotone rule set, Infer(root) eventually returns.
C2_InferReturns == Supported => <>(pc = "done")

\* C3. Idempotence at fixed point: once Infer(root) has returned under a
\* monotone rule set, a second Infer(root) on the same inferencer changes no
\* entry of the layout map and never sets the modified flag.
C3_SecondInferIsNoOp ==
  (calls >= 2 /\ pc # "infer") => (~changed /\ ~modified_)

C3_Witness ==
  /\ rules = "contract" /\ calls = 2 /\ pc = "done"
  /\ root = "conv" /\ "x" \in DOMAIN proposed
  /\ layout_map_["x"] = TensorLayout("NCHW")

\* C4. Fixed point at return: whenever Infer(root) returns, the traversal of
\* root that was completed last changed no entry of the layout map.
C4_FixedPointAtReturn == pc = "done" => ~changed

\* C5. Scenario B: root = Call(conv2d, [x, w]), empty initial map, a conv2d
\* rule that succeeds once with x -> NCHW, w -> OIHW, call -> NCHW and then
\* declines.  Infer returns (after at most two traversals, never a fatal
\* error), the export is exactly {x: [NCHW], w: [OIHW], call: [NCHW]}, and
\* a second Infer changes nothing.
ScenarioB == rules = "scenarioB" /\ in_layouts = EmptyMap

ExpectedB ==
  [n \in {"x", "w", "conv"} |-> IF n = "w" THEN <<"OIHW">> ELSE <<"NCHW">>]

C5_ScenarioB ==
  ScenarioB =>
    /\ pc # "fatal" /\ traversals <= 2 /\ Len(stack) <= 3
    /\ pc \in {"done", "collected"} => CollectLayoutInfo(layout_map_) = ExpectedB
    /\ pc = "collected" => exported = ExpectedB
    /\ (calls >= 2 /\ pc # "infer") => (~changed /\ ~modified_)

C5_Witness ==
  ScenarioB /\ pc = "collected" /\ calls = 2 /\ exported = ExpectedB

\* C6. Unsupported-kind failure: a run whose traversal comes to a node of an
\* unsupported kind (as root, Function body or call argument) aborts,
\* whatever the layout map holds for that node: no call collects a layout
\* for such an argument, the traversal is never completed and nothing is
\* exported.
C6_UnsupportedAborts ==
  /\ \A j \in 1..Len(stack) :
       (stack[j].fn = "Visit" /\ Kind(stack[j].node) = "Call") =>
          \A i \in 1..Len(stack[j].layouts) :
             i <= Len(Args(stack[j].node)) =>
                Kind(Args(stack[j].node)[i]) \notin Unsupported
  /\ (\E n \in Reach(root) : Kind(n) \in Unsupported) =>
       (pc \notin {"check", "done", "collected"} /\ exported = NoExport)

\* C7. Arity violation fails fast: a successful report that holds a layout
\* whose arity is not that of its node's static type is not merged, the run
\* ends in the fatal state instead; and a run pre-seeded with such a layout
\* never returns from Infer nor exports.
BadArity(m) == \E n \in DOMAIN m : LayoutArity(m[n]) # TypeArity(n)

C7_ArityFailsFast ==
  [][/\ (Running /\ Top.fn = "Visit" /\ Top.at = "merge"
           /\ reporter.ok /\ BadArity(reporter.results))
          => (pc' = "fatal" /\ layout_map_' = layout_map_)
     /\ (pc' \in {"done", "collected"}) => ~BadArity(in_layouts)]_vars

\* C8. Unregistered operator is a no-op: the visit of a call whose operator
\* has no FInferLayout rule, from the rule lookup on (lines 185-196), leaves
\* layout_map_ and modified_ as they are, returns the call's entry (the
\* cached-or-default layout of line 181) and raises no error.
AtUnregistered ==
  /\ Running /\ Top.fn = "Visit" /\ Top.at = "lookup"
  /\ Callee(Top.node) \notin Nodes
  /\ Callee(Top.node) \notin Registered

C8_UnregisteredNoOp ==
  [][AtUnregistered =>
       /\ layout_map_' = layout_map_
       /\ modified_' = modified_
       /\ ret' = layout_map_[Top.node]
       /\ ret' = Top.layouts[Len(Top.layouts)]
       /\ pc' # "fatal"
       /\ stack' = Pop(stack)]_vars

C8_Witness ==
  /\ root = "plain" /\ pc = "check"
  /\ in_layouts = MapSet(EmptyMap, "plain", TensorLayout("NHWC"))
  /\ ret = TensorLayout("NHWC")
  /\ layout_map_["plain"] = TensorLayout("NHWC")

\* C9. Rule declines: when the rule of a call returns failure, nothing of
\* its reporter is merged: layout_map_ and modified_ are the same after the
\* invocation and after the rest of the visit as before, and the visit
\* returns the call's current entry.
AtRule ==
  /\ Running /\ Top.fn = "Visit" /\ Top.at = "lookup"
  /\ Callee(Top.node) \in Registered

Declined ==
  /\ Running /\ Top.fn = "Visit" /\ Top.at = "merge"
  /\ ~reporter.ok

C9_RuleDeclines ==
  [][/\ AtRule => (layout_map_' = layout_map_ /\ modified_' = modified_)
     /\ Declined =>
          /\ layout_map_' = layout_map_
          /\ modified_' = modified_
          /\ ret' = layout_map_[Top.node]
          /\ stack' = Pop(stack)]_vars

C9_Witness ==
  /\ Declined
  /\ \E n \in DOMAIN reporter.results : reporter.results[n] # layout_map_[n]

\* C10. Default insertion: the layout inserted for a node without an entry
\* is TensorLayout(Undef) for a tensor type and TupleLayout of N Undef
\* fields for a tuple type of N fields, N = 0 and N = 1 included.
ExpectedDefault(n) ==
  IF IsTupleType(n) THEN TupleLayout(Repeat(NumFields(n), Undef)) ELSE TensorLayout(Undef)

\* the step is a GetCachedLayout(n) of line 136 or line 181
DefaultStep(n) ==
  /\ Running /\ Top.fn = "Visit" /\ Top.node = n
  /\ \/ Kind(n) = "Var"
     \/ Kind(n) = "Call" /\ Top.at = "enter" /\ Top.i = Len(Args(n)) + 1

C10_DefaultInsertion ==
  [][\A n \in Nodes :
       (DefaultStep(n) /\ n \notin DOMAIN layout_map_)
          => (n \in DOMAIN layout_map_' /\ layout_map_'[n] = ExpectedDefault(n))]_vars

\* C11. Scenario A: root = Var x of tensor type, empty initial map.  As
\* stated: Infer returns after one traversal of root and the export is
\* exactly {x: [Undef]}.
ScenarioA == root = "x" /\ in_layouts = EmptyMap /\ calls = 1

ExpectedA == [n \in {"x"} |-> <<Undef>>]

C11_ScenarioA_OneTraversal ==
  ScenarioA =>
    /\ pc \in {"done", "collected"} => traversals = 1
    /\ pc = "collected" => exported = ExpectedA

\* C11 as the code has it: the first traversal inserts the default of x and
\* sets modified_, so Infer traverses root a second time, which changes
\* nothing, and returns after exactly two traversals; the export is exactly
\* {x: [Undef]}.
C11_ScenarioA ==
  ScenarioA =>
    /\ pc # "fatal" /\ traversals <= 2 /\ Len(stack) <= 1
    /\ pc \in {"done", "collected"} =>
         (traversals = 2 /\ ~changed /\ CollectLayoutInfo(layout_map_) = ExpectedA)
    /\ pc = "collected" => exported = ExpectedA

C11_Witness ==
  ScenarioA /\ pc = "collected" /\ traversals = 2 /\ exported = ExpectedA

\* C12. Scenario C: an inferencer constructed from the pre-seeded map
\* {x: TensorLayout(NHWC)}.  The members modified_ and timestamp_ start as
\* false and 0; visiting Var x returns NHWC, keeps x's entry and leaves
\* modified_ false, so Infer(x) returns after one traversal and the export is
\* {x: [NHWC]}.
ScenarioC ==
  /\ root = "x" /\ ctor = "preseeded" /\ calls = 1
  /\ in_layouts = MapSet(EmptyMap, "x", TensorLayout("NHWC"))

ExpectedC == [n \in {"x"} |-> <<"NHWC">>]

C12_ScenarioC ==
  ScenarioC =>
    /\ layout_map_ = in_layouts
    /\ pc \in {"check", "done", "collected"} =>
         /\ ret = TensorLayout("NHWC")
         /\ ~modified_ /\ timestamp_ = 0
         /\ traversals = 1
    /\ pc = "collected" => exported = ExpectedC

\* C13. Export: CollectLayoutInfo returns a mapping with the keys of the
\* layout map, [l] for an entry TensorLayout(l) and the fields, in order,
\* for an entry TupleLayout(fields); it changes neither layout_map_ nor
\* modified_ nor timestamp_.
C13_Export ==
  [][(pc = "done" /\ pc' = "collected") =>
       /\ DOMAIN exported' = DOMAIN layout_map_
       /\ \A n \in DOMAIN layout_map_ :
            /\ layout_map_[n].tag = "Tensor" =>
                 (Len(exported'[n]) = 1 /\ exported'[n][1] = layout_map_[n].layout)
            /\ layout_map_[n].tag = "Tuple" => exported'[n] = layout_map_[n].fields
       /\ UNCHANGED <<layout_map_, modified_, timestamp_>>]_vars

C13_Witness ==
  /\ pc = "collected"
  /\ DOMAIN exported = DOMAIN layout_map_
  /\ \E n \in DOMAIN layout_map_ : layout_map_[n].tag = "Tensor" /\ exported[n] = <<"NCHW">>
  /\ \E n \in DOMAIN layout_map_ :
       layout_map_[n].tag = "Tuple" /\ exported[n] = <<"NCHW", "NCHW">>

\* C14. Modified-flag accuracy: within a round, every step that inserts a
\* key into the layout map or replaces a layout by a different value (by
\* default insertion, by a merged proposal or by GetLayout's write-back)
\* leaves modified_ true, and a step that leaves the map as it was does not
\* set modified_.
C14_ModifiedFlagAccuracy ==
  [][Running =>
       /\ layout_map_' # layout_map_ => modified_'
       /\ layout_map_' = layout_map_ => modified_' = modified_]_vars

\* C15. Round protocol: every traversal of root, the first one of an Infer
\* call included, comes right after modified_ was reset and timestamp_ was
\* incremented by one; so, on an inferencer built with timestamp_ = 0, the
\* counter never decreases and during the k-th traversal it is k.
C15_RoundProtocol ==
  /\ [][timestamp_' >= timestamp_]_vars
  /\ [][(pc = "infer" /\ pc' = "visit") => ~modified_]_vars
  /\ []((ctor = "default" /\ calls = 1 /\ pc \in {"visit", "check"} /\ traversals <= MaxStamp)
          => timestamp_ = traversals)

\* C16. Rule sees current layouts: when the rule of a call is invoked, the
\* layouts handed to it are, position by position, the current entries of
\* layout_map_ for [a_1 .. a_n, c], also when the visit of a later argument
\* has changed the entry of an earlier one.
NodeAt(c, i) == IF i <= Len(Args(c)) THEN Args(c)[i] ELSE c

C16_RuleSeesCurrentLayouts ==
  AtRule =>
    /\ Len(Top.layouts) = Len(Args(Top.node)) + 1
    /\ \A i \in 1..Len(Top.layouts) :
         /\ NodeAt(Top.node, i) \in DOMAIN layout_map_
         /\ Top.layouts[i] = layout_map_[NodeAt(Top.node, i)]

\* C17. Memoization within a round: in one traversal of root the rule of a
\* call is invoked at most once, however often the call is reached (as a
\* shared argument, or through a Function that is a shared argument).
C17_MemoizedWithinRound == AtRule => Top.node \notin roundInvoked

\* C18. No stale reuse: GetLayout returns the entry of an argument that is a
\* Call or a Function without visiting it only if that argument has been
\* visited in the current round; so at the end of every round on a graph of
\* Var, Call and Function nodes, every reachable call with a registered rule
\* has had its rule invoked in that round.
C18_NoStaleReuse ==
  /\ [][(InArgs /\ Len(stack') = Len(stack) /\ Kind(Args(Top.node)[Top.i]) # "Var")
          => Args(Top.node)[Top.i] \in roundVisited]_vars
  /\ []((pc = "check" /\ Supported) =>
          \A c \in Reach(root) \cap Calls :
             Callee(c) \in Registered => c \in roundInvoked)

\* C19. Call visit returns the merged result: when the rule of a call
\* succeeds, every (node, layout) pair of the reporter is in layout_map_
\* when the visit returns (and no other entry has changed), the call is
\* stamped with the current timestamp_, and the visit returns the call's
\* entry as it is after the merge.
Succeeded ==
  /\ Running /\ Top.fn = "Visit" /\ Top.at = "merge"
  /\ reporter.ok

C19_ReturnsMergedResult ==
  [][Succeeded =>
       /\ \A n \in DOMAIN reporter.results :
            n \in DOMAIN layout_map_' /\ layout_map_'[n] = reporter.results[n]
       /\ \A n \in (DOMAIN layout_map_) \ (DOMAIN reporter.results) :
            n \in DOMAIN layout_map_' /\ layout_map_'[n] = layout_map_[n]
       /\ layout_timestamp_'[Top.node] = timestamp_
       /\ Top.node \in DOMAIN layout_map_'
       /\ ret' = layout_map_'[Top.node]
       /\ stack' = Pop(stack)]_vars

C19_Witness ==
  /\ root = "conv" /\ in_layouts = EmptyMap /\ pc = "check" /\ traversals = 1
  /\ ret = TensorLayout("NCHW")
  /\ layout_map_["conv"] = TensorLayout("NCHW")
  /\ layout_map_["w"] = TensorLayout("NCHW")
  /\ layout_timestamp_["conv"] = timestamp_

\* C20. Var entries change only through rule proposals: once a Var has an
\* entry, the entry stays, and the only step that changes its value is the
\* merge of a successful rule's reporter that names the Var; visiting the
\* Var, reading it through GetLayout in a later round and the export leave
\* it as it is.
C20_VarChangesOnlyByProposal ==
  [][\A v \in Vars \cap DOMAIN layout_map_ :
       /\ v \in DOMAIN layout_map_'
       /\ layout_map_'[v] # layout_map_[v] =>
            /\ Succeeded
            /\ v \in DOMAIN reporter.results
            /\ layout_map_'[v] = reporter.results[v]]_vars

C20_Witness ==
  /\ root = "conv" /\ pc = "collected" /\ traversals >= 2
  /\ in_layouts = MapSet(EmptyMap, "x", TensorLayout("NHWC"))
  /\ "x" \in roundVisited
  /\ layout_map_["x"] = TensorLayout("NHWC")
  /\ exported["x"] = <<"NHWC">>

\* C21. Accepted proposals persist: once a successful rule's proposal for a
\* node (a Function argument included) has been merged into layout_map_, the
\* node's entry keeps that value until a later successful proposal for the
\* node replaces it; GetLayout's write-back of a visit result never
\* overwrites it, and the export made after Infer returned shows the last
\* accepted proposal of every node that has one.  `proposed` holds the last
\* successful proposal per node from the rule's return on, so the entry may
\* differ from it only while that reporter's merge (lines 191-193) is pending.
MergePending == Running /\ Top.fn = "Visit" /\ Top.at = "merge"

C21_AcceptedProposalsPersist ==
  /\ ~MergePending =>
        \A n \in DOMAIN proposed :
           n \in DOMAIN layout_map_ /\ layout_map_[n] = proposed[n]
  /\ pc = "collected" =>
        \A n \in DOMAIN proposed :
           n \in DOMAIN exported /\ exported[n] = LayoutFields(proposed[n])

====
